---- MODULE Spec2Model ----
(***************************************************************************)
(* Model of pharos' per-subscriber event channel (src/src/events.rs):      *)
(* Events::new, Events::close, Events::poll_next, Sender::is_closed,       *)
(* Sender::notify and Sender::notifier, over the futures mpsc transport    *)
(* they are built on (mpsc::channel / mpsc::unbounded, SinkExt::send).     *)
(*                                                                         *)
(* One producer drives broadcast passes over a registry of Senders; each   *)
(* subscriber owns its Events stream and polls, closes or drops it at its  *)
(* own pace.  A send is the three Sink steps SinkExt::send performs:       *)
(* poll_ready, start_send, poll_flush; each is one atomic step, so that    *)
(* the subscriber can act between any two of them.                         *)
(***************************************************************************)
EXTENDS Integers, Sequences, FiniteSets, TLC

\* ------------------------------------------------------------- bounds
MaxBroadcasts == 4

\* Broadcasts to a registry of two live subscriptions.
MaxPairBroadcasts == 2

\* The registry holds two subscriptions, visited in this order.
Subs == {1, 2}

FirstSub == CHOOSE i \in Subs : \A j \in Subs : i <= j

LastSub == CHOOSE i \in Subs : \A j \in Subs : j <= i

\* Event values the producer broadcasts.
EventValues == {1, 2}

\* The scripted broadcast of the Bounded(2) / even-filter scenario.
Script == <<1, 2, 3, 4, 5, 6>>

\* Queue sizes a Bounded subscription is created with.
QueueSizes == {1, 2}

Filters == {"none", "even", "odd"}

VARIABLES
    config,       \* the ObserveConfig each subscription was created from
    sender,       \* the Sender of each subscription: its variant and its filter
    receiver,     \* the Receiver of each subscription: its variant
    buffer,       \* the queue_size the bounded transport was created with
    tx,           \* the registry still holds the Sender
    rx,           \* "held" | "dropped": the subscriber still holds its Events
    rx_inner,     \* the transport receiver still has its inner (FALSE after end of stream)
    is_open,      \* the transport's open flag
    queue,        \* the transport's message queue
    parked,       \* bounded: the Sender's task is parked (sender_task.is_parked)
    maybe_parked, \* bounded: the Sender's own maybe_parked flag
    pc,           \* producer position: idle | notify | ready | start_send | flush
    idx,          \* position in the registry of the Sender being notified
    evt,          \* the event of the current broadcast
    ret,          \* return value of the latest notify of each Sender
    bcast,        \* history: the events broadcast so far, in call order
    observed,     \* history: the events poll_next yielded to each subscriber
    ended,        \* history: poll_next has yielded None to the subscriber
    evaluated,    \* history: the filter was evaluated for the current broadcast
    closed,       \* history: Events::close was called
    closeSnap     \* history: at the first Events::close, the number of events already
                  \* observed (at) and the events then in the queue (evs)

vars == << config, sender, receiver, buffer, tx, rx, rx_inner, is_open, queue, parked,
           maybe_parked, pc, idx, evt, ret, bcast, observed, ended, evaluated,
           closed, closeSnap >>

\* ------------------------------------------------------------ helpers
Bounded(n) == [kind |-> "Bounded", queue_size |-> n]

Unbounded == [kind |-> "Unbounded", queue_size |-> 0]

Channels == {Bounded(n) : n \in QueueSizes} \cup {Unbounded}

\* ObserveConfig: the channel discipline and the optional filter.
ObserveConfig == [channel : Channels, filter : Filters]

Pending == [tag |-> "Pending", val |-> 0]

None == [tag |-> "None", val |-> 0]

Some(e) == [tag |-> "Some", val |-> e]

IsPrefix(s, t) == Len(s) <= Len(t) /\ SubSeq(t, 1, Len(s)) = s

\* Filter::call on the predicates the model subscribes with.
Call(f, e) == IF f = "even" THEN e % 2 = 0 ELSE e % 2 = 1

\* ObserveConfig::default(), as the test `debug` pins it: an unbounded
\* channel, no filter.
DefaultConfig == [channel |-> Unbounded, filter |-> "none"]

\* Mutant: every subscription gets the unbounded pair, whatever was configured.
NewIgnoresChannel(cfg) ==
    [tx |-> [kind |-> "Unbounded", filter |-> cfg.filter],
     rx |-> [kind |-> "Unbounded"],
     buffer |-> 0]

\* Events::new: the Sender and the Receiver of one subscription.
New(cfg) ==
    IF cfg.channel.kind = "Bounded"
    THEN [tx |-> [kind |-> "Bounded", filter |-> cfg.filter],
          rx |-> [kind |-> "Bounded"],
          buffer |-> cfg.channel.queue_size]
    ELSE [tx |-> [kind |-> "Unbounded", filter |-> cfg.filter],
          rx |-> [kind |-> "Unbounded"],
          buffer |-> 0]

\* Mutant: the Sender never reports its channel closed.
IsClosedNever(i) == FALSE

\* Sender::is_closed
IsClosed(i) == ~is_open[i]

\* Mutant: the filter is never consulted.
InterestedAlways(f, e) == TRUE

\* Sender::notifier, the filter decision: `interested`.
Interested(f, e) == IF f = "none" THEN TRUE ELSE Call(f, e)

\* Mutant: the event is put at the head of the queue.
EnqueueAtHead(q, e) == <<e>> \o q

\* The item start_send puts on the transport's queue: evt.clone() at its tail.
Enqueue(q, e) == Append(q, e)

\* Mutant: the sender is never parked, whatever the queue holds.
ParkSelfNever(kind, n, size) == FALSE

\* Mutant: the unbounded transport parks its sender like a bounded one.
ParkSelfAnyKind(kind, n, size) == n > size

\* Mutant: the sender is parked as soon as the queue is full.
ParkSelfWhenFull(kind, n, size) == kind = "Bounded" /\ n >= size

\* The transport's decision to park the sender after accepting a message:
\* more messages are pending than the queue_size it was created with.
ParkSelf(kind, n, size) == kind = "Bounded" /\ n > size

\* poll_unparked: the bounded sender waits while its task is parked.
IsParked(i) == maybe_parked[i] /\ parked[i]

\* Mutant: the send is not awaited to its end; the flush never waits.
FlushReadyAlways(i) == TRUE

\* Sink::poll_flush of the transport's sender: ready once the receiver is
\* disconnected (counted as flushed) or the sender task is not parked.
FlushReady(i) == ~is_open[i] \/ ~IsParked(i)

\* Mutant: the result of the send is ignored; notify reports true.
IsOkAlways(result) == "true"

\* The value notify returns for a completed send: Result::is_ok.
IsOk(result) == IF result = "Ok" THEN "true" ELSE "false"

\* The registry's pass moves on to the next Sender, or ends.
Advance ==
    IF idx = LastSub
    THEN pc' = "idle" /\ idx' = 0
    ELSE pc' = "notify" /\ idx' = idx + 1

\* Mutant: a false verdict ends the pass; the Senders after it are not notified.
ReturnAborts(r) ==
    /\ ret' = [ret EXCEPT ![idx] = r]
    /\ IF r = "false" THEN pc' = "idle" /\ idx' = 0 ELSE Advance

\* notify of Sender idx returns r.
Return(r) == ret' = [ret EXCEPT ![idx] = r] /\ Advance

\* ---------------------------------------------------------------- Init
\* The registry after Events::new for every subscription of `live`; the other
\* slots hold a subscription that has ended: its Events dropped, its Sender
\* pruned.
InitOf(configs, live) ==
    /\ config = configs
    /\ sender = [i \in Subs |-> New(configs[i]).tx]
    /\ receiver = [i \in Subs |-> New(configs[i]).rx]
    /\ buffer = [i \in Subs |-> New(configs[i]).buffer]
    /\ tx = [i \in Subs |-> i \in live]
    /\ rx = [i \in Subs |-> IF i \in live THEN "held" ELSE "dropped"]
    /\ rx_inner = [i \in Subs |-> i \in live]
    /\ is_open = [i \in Subs |-> i \in live]
    /\ queue = [i \in Subs |-> << >>]
    /\ parked = [i \in Subs |-> FALSE]
    /\ maybe_parked = [i \in Subs |-> FALSE]
    /\ pc = "idle"
    /\ idx = 0
    /\ evt = 0
    /\ ret = [i \in Subs |-> "none"]
    /\ bcast = << >>
    /\ observed = [i \in Subs |-> << >>]
    /\ ended = [i \in Subs |-> FALSE]
    /\ evaluated = [i \in Subs |-> FALSE]
    /\ closed = [i \in Subs |-> FALSE]
    /\ closeSnap = [i \in Subs |-> [at |-> 0, evs |-> << >>]]

\* One subscription, of any configuration, in one slot of the registry.
Init ==
    \E c \in ObserveConfig, slot \in Subs :
        InitOf([i \in Subs |-> c], {slot})

\* ------------------------------------------------------------ producer
\* The registry starts a broadcast pass for event e.
StartPass(e) ==
    /\ pc = "idle"
    /\ bcast' = Append(bcast, e)
    /\ evt' = e
    /\ idx' = FirstSub
    /\ pc' = "notify"
    /\ evaluated' = [i \in Subs |-> FALSE]
    /\ UNCHANGED << config, sender, receiver, buffer, tx, rx, rx_inner, is_open, queue,
                    parked, maybe_parked, ret, observed, ended, closed, closeSnap >>

Broadcast ==
    /\ Len(bcast) < MaxBroadcasts
    /\ \E e \in EventValues : StartPass(e)

\* The pass skips a registry slot whose Sender was dropped.
Skip ==
    /\ pc = "notify"
    /\ ~tx[idx]
    /\ Advance
    /\ UNCHANGED << config, sender, receiver, buffer, tx, rx, rx_inner, is_open, queue,
                    parked, maybe_parked, evt, ret, bcast, observed, ended,
                    evaluated, closed, closeSnap >>

\* Mutant: the filter is consulted before the is_closed check.
NotifyFilterFirst ==
    /\ pc = "notify"
    /\ tx[idx]
    /\ evaluated' = [evaluated EXCEPT ![idx] = TRUE]
    /\ IF ~Interested(sender[idx].filter, evt)
       THEN Return("true")
       ELSE IF IsClosed(idx)
       THEN Return("false")
       ELSE /\ pc' = "ready"
            /\ UNCHANGED << idx, ret >>
    /\ UNCHANGED << config, sender, receiver, buffer, tx, rx, rx_inner, is_open, queue,
                    parked, maybe_parked, evt, bcast, observed, ended, closed,
                    closeSnap >>

\* Sender::notify up to the send: the is_closed check, then notifier's filter.
Notify ==
    /\ pc = "notify"
    /\ tx[idx]
    /\ IF IsClosed(idx)
       THEN /\ Return("false")
            /\ UNCHANGED evaluated
       ELSE /\ evaluated' = [evaluated EXCEPT ![idx] = TRUE]
            /\ IF Interested(sender[idx].filter, evt)
               THEN /\ pc' = "ready"
                    /\ UNCHANGED << idx, ret >>
               ELSE Return("true")
    /\ UNCHANGED << config, sender, receiver, buffer, tx, rx, rx_inner, is_open, queue,
                    parked, maybe_parked, evt, bcast, observed, ended, closed,
                    closeSnap >>

\* tx.send( evt.clone() ), first step: Sink::poll_ready.
PollReady ==
    /\ pc = "ready"
    /\ IF ~is_open[idx]
       THEN /\ Return(IsOk("Disconnected"))
            /\ UNCHANGED maybe_parked
       ELSE /\ ~IsParked(idx)
            /\ maybe_parked' = [maybe_parked EXCEPT ![idx] = FALSE]
            /\ pc' = "start_send"
            /\ UNCHANGED << idx, ret >>
    /\ UNCHANGED << config, sender, receiver, buffer, tx, rx, rx_inner, is_open, queue,
                    parked, evt, bcast, observed, ended, evaluated, closed,
                    closeSnap >>

\* tx.send( evt.clone() ), second step: Sink::start_send.
StartSend ==
    /\ pc = "start_send"
    /\ IF IsParked(idx)
       THEN /\ Return(IsOk("Full"))
            /\ UNCHANGED << queue, parked, maybe_parked >>
       ELSE IF ~is_open[idx]
       THEN /\ Return(IsOk("Disconnected"))
            /\ UNCHANGED << queue, parked, maybe_parked >>
       ELSE /\ queue' = [queue EXCEPT ![idx] = Enqueue(@, evt)]
            /\ IF ParkSelf(sender[idx].kind, Len(queue[idx]) + 1, buffer[idx])
               THEN /\ parked' = [parked EXCEPT ![idx] = TRUE]
                    /\ maybe_parked' = [maybe_parked EXCEPT ![idx] = TRUE]
               ELSE UNCHANGED << parked, maybe_parked >>
            /\ pc' = "flush"
            /\ UNCHANGED << idx, ret >>
    /\ UNCHANGED << config, sender, receiver, buffer, tx, rx, rx_inner, is_open, evt,
                    bcast, observed, ended, evaluated, closed, closeSnap >>

\* tx.send( evt.clone() ), last step: Sink::poll_flush, then .is_ok().
\* A bounded sender's flush waits until its task is unparked; a disconnected
\* receiver counts as flushed.
PollFlush ==
    /\ pc = "flush"
    /\ FlushReady(idx)
    /\ maybe_parked' = [maybe_parked EXCEPT ![idx] = ~is_open[idx] /\ @]
    /\ Return(IsOk("Ok"))
    /\ UNCHANGED << config, sender, receiver, buffer, tx, rx, rx_inner, is_open, queue,
                    parked, evt, bcast, observed, ended, evaluated, closed,
                    closeSnap >>

\* Mutant: dropping the Sender leaves the transport open.
DropSenderSilent(i) ==
    /\ pc = "idle"
    /\ tx[i]
    /\ tx' = [tx EXCEPT ![i] = FALSE]
    /\ UNCHANGED << config, sender, receiver, buffer, rx, rx_inner, is_open, queue,
                    parked, maybe_parked, pc, idx, evt, ret, bcast, observed,
                    ended, evaluated, closed, closeSnap >>

\* The registry drops a Sender between two passes; the last sender of a
\* transport closes it.
DropSender(i) ==
    /\ pc = "idle"
    /\ tx[i]
    /\ tx' = [tx EXCEPT ![i] = FALSE]
    /\ is_open' = [is_open EXCEPT ![i] = FALSE]
    /\ UNCHANGED << config, sender, receiver, buffer, rx, rx_inner, queue, parked,
                    maybe_parked, pc, idx, evt, ret, bcast, observed, ended,
                    evaluated, closed, closeSnap >>

\* ---------------------------------------------------------- subscriber
\* Mutant: a closed channel ends the stream at once, events still queued or not.
PollResultClosedFirst(i) ==
    IF ~rx_inner[i] \/ ~is_open[i] THEN None
    ELSE IF queue[i] # << >> THEN Some(Head(queue[i]))
    ELSE Pending

\* What the transport's poll_next answers in the current state: None once its
\* inner is gone, the head of the queue while messages remain, None (end of
\* stream) when the queue is empty and the channel closed, Pending otherwise.
PollResult(i) ==
    IF ~rx_inner[i] THEN None
    ELSE IF queue[i] # << >> THEN Some(Head(queue[i]))
    ELSE IF ~is_open[i] THEN None
    ELSE Pending

\* Events::poll_next -> Receiver::poll_next -> the transport's poll_next.
\* Popping a message unparks the parked sender task; end of stream drops
\* the receiver's inner.
PollNext(i) ==
    /\ rx[i] = "held"
    /\ IF PollResult(i).tag = "Some"
       THEN /\ queue' = [queue EXCEPT ![i] = Tail(@)]
            /\ parked' = [parked EXCEPT ![i] = FALSE]
            /\ observed' = [observed EXCEPT ![i] = Append(@, PollResult(i).val)]
            /\ UNCHANGED << rx_inner, ended >>
       ELSE IF PollResult(i) = None
       THEN /\ rx_inner' = [rx_inner EXCEPT ![i] = FALSE]
            /\ ended' = [ended EXCEPT ![i] = TRUE]
            /\ UNCHANGED << queue, parked, observed >>
       ELSE UNCHANGED << queue, parked, observed, rx_inner, ended >>
    /\ UNCHANGED << config, sender, receiver, buffer, tx, rx, is_open, maybe_parked, pc,
                    idx, evt, ret, bcast, evaluated, closed, closeSnap >>

\* Mutant: a repeated close drops what is still queued.
CloseAgainDiscards(i) ==
    /\ rx[i] = "held"
    /\ is_open' = [is_open EXCEPT ![i] = FALSE]
    /\ parked' = [parked EXCEPT ![i] = FALSE]
    /\ queue' = IF closed[i] THEN [queue EXCEPT ![i] = << >>] ELSE queue
    /\ closed' = [closed EXCEPT ![i] = TRUE]
    /\ closeSnap' = IF closed[i] THEN closeSnap
                    ELSE [closeSnap EXCEPT ![i] = [at |-> Len(observed[i]),
                                                   evs |-> queue[i]]]
    /\ UNCHANGED << config, sender, receiver, buffer, tx, rx, rx_inner,
                    maybe_parked, pc, idx, evt, ret, bcast, observed, ended,
                    evaluated >>

\* Mutant: close flips the open flag, so that a second close reopens.
CloseToggles(i) ==
    /\ rx[i] = "held"
    /\ IF rx_inner[i]
       THEN /\ is_open' = [is_open EXCEPT ![i] = IF closed[i] THEN ~@ ELSE FALSE]
            /\ parked' = [parked EXCEPT ![i] = FALSE]
       ELSE UNCHANGED << is_open, parked >>
    /\ closed' = [closed EXCEPT ![i] = TRUE]
    /\ closeSnap' = IF closed[i] THEN closeSnap
                    ELSE [closeSnap EXCEPT ![i] = [at |-> Len(observed[i]),
                                                   evs |-> queue[i]]]
    /\ UNCHANGED << config, sender, receiver, buffer, tx, rx, rx_inner, queue,
                    maybe_parked, pc, idx, evt, ret, bcast, observed, ended,
                    evaluated >>

\* Mutant: close drops what is still queued, as dropping the Events does.
CloseDiscards(i) ==
    /\ rx[i] = "held"
    /\ is_open' = [is_open EXCEPT ![i] = FALSE]
    /\ parked' = [parked EXCEPT ![i] = FALSE]
    /\ queue' = [queue EXCEPT ![i] = << >>]
    /\ closed' = [closed EXCEPT ![i] = TRUE]
    /\ closeSnap' = IF closed[i] THEN closeSnap
                    ELSE [closeSnap EXCEPT ![i] = [at |-> Len(observed[i]),
                                                   evs |-> queue[i]]]
    /\ UNCHANGED << config, sender, receiver, buffer, tx, rx, rx_inner,
                    maybe_parked, pc, idx, evt, ret, bcast, observed, ended,
                    evaluated >>

\* Mutant: close never reaches the transport.
CloseForgotten(i) ==
    /\ rx[i] = "held"
    /\ closed' = [closed EXCEPT ![i] = TRUE]
    /\ closeSnap' = IF closed[i] THEN closeSnap
                    ELSE [closeSnap EXCEPT ![i] = [at |-> Len(observed[i]),
                                                   evs |-> queue[i]]]
    /\ UNCHANGED << config, sender, receiver, buffer, tx, rx, rx_inner, is_open,
                    queue, parked, maybe_parked, pc, idx, evt, ret, bcast,
                    observed, ended, evaluated >>

\* Events::close -> Receiver::close -> the transport's close: the open flag
\* is cleared and every parked sender task is woken; the queue is kept.
Close(i) ==
    /\ rx[i] = "held"
    /\ IF rx_inner[i]
       THEN /\ is_open' = [is_open EXCEPT ![i] = FALSE]
            /\ parked' = [parked EXCEPT ![i] = FALSE]
       ELSE UNCHANGED << is_open, parked >>
    /\ closed' = [closed EXCEPT ![i] = TRUE]
    /\ closeSnap' = IF closed[i] THEN closeSnap
                    ELSE [closeSnap EXCEPT ![i] = [at |-> Len(observed[i]),
                                                   evs |-> queue[i]]]
    /\ UNCHANGED << config, sender, receiver, buffer, tx, rx, rx_inner, queue,
                    maybe_parked, pc, idx, evt, ret, bcast, observed, ended,
                    evaluated >>

\* The subscriber drops its Events: the transport is closed and its queue
\* drained.
Drop(i) ==
    /\ rx[i] = "held"
    /\ rx' = [rx EXCEPT ![i] = "dropped"]
    /\ rx_inner' = [rx_inner EXCEPT ![i] = FALSE]
    /\ is_open' = [is_open EXCEPT ![i] = FALSE]
    /\ parked' = [parked EXCEPT ![i] = FALSE]
    /\ queue' = [queue EXCEPT ![i] = << >>]
    /\ UNCHANGED << config, sender, receiver, buffer, tx, maybe_parked, pc, idx, evt,
                    ret, bcast, observed, ended, evaluated, closed, closeSnap >>

\* ------------------------------------------------------- specification
Next ==
    \/ Broadcast
    \/ Skip
    \/ Notify
    \/ PollReady
    \/ StartSend
    \/ PollFlush
    \/ \E i \in Subs : DropSender(i)
    \/ \E i \in Subs : PollNext(i)
    \/ \E i \in Subs : Close(i)
    \/ \E i \in Subs : Drop(i)

Spec == Init /\ [][Next]_vars

\* The scenario of one subscription created with Bounded(2) and the filter
\* "only even integers", to which Script is broadcast in order.
ScriptConfig == [channel |-> Bounded(2), filter |-> "even"]

InitScript == InitOf([i \in Subs |-> ScriptConfig], {FirstSub})

BroadcastScript ==
    /\ Len(bcast) < Len(Script)
    /\ StartPass(Script[Len(bcast) + 1])

NextScript ==
    \/ BroadcastScript
    \/ Skip
    \/ Notify
    \/ PollReady
    \/ StartSend
    \/ PollFlush
    \/ \E i \in Subs : DropSender(i)
    \/ \E i \in Subs : PollNext(i)
    \/ \E i \in Subs : Close(i)
    \/ \E i \in Subs : Drop(i)

SpecScript == InitScript /\ [][NextScript]_vars

\* Two live subscriptions in the registry, each either Bounded(1) without
\* filter or Unbounded with the even filter.
PairConfigs ==
    {[channel |-> Bounded(1), filter |-> "none"],
     [channel |-> Unbounded, filter |-> "even"]}

InitPair == \E configs \in [Subs -> PairConfigs] : InitOf(configs, Subs)

BroadcastPair ==
    /\ Len(bcast) < MaxPairBroadcasts
    /\ \E e \in EventValues : StartPass(e)

NextPair ==
    \/ BroadcastPair
    \/ Skip
    \/ Notify
    \/ PollReady
    \/ StartSend
    \/ PollFlush
    \/ \E i \in Subs : DropSender(i)
    \/ \E i \in Subs : PollNext(i)
    \/ \E i \in Subs : Close(i)
    \/ \E i \in Subs : Drop(i)

SpecPair == InitPair /\ [][NextPair]_vars

\* The producer's task is polled again whenever it can make progress: an
\* executor does not starve a woken task.
ProducerStep == Skip \/ Notify \/ PollReady \/ StartSend \/ PollFlush

FairSpec == Init /\ [][Next]_vars /\ WF_vars(ProducerStep)

\* A subscriber that polls its stream is polled again whenever a poll can
\* yield an item or the end of the stream: the transport wakes its task.
FairPollSpec == Init /\ [][Next]_vars /\ \A i \in Subs : WF_vars(PollNext(i))

\* -------------------------------------------------------------- claims
\* What a subscriber asked for: the events its configured filter accepts.
Wanted(i, e) ==
    \/ config[i].filter = "none"
    \/ config[i].filter = "even" /\ e % 2 = 0
    \/ config[i].filter = "odd" /\ e % 2 = 1

WantedOf(i, s) == SelectSeq(s, LAMBDA e : Wanted(i, e))

Front(s) == SubSeq(s, 1, Len(s) - 1)

\* The broadcasts whose notify of Sender i has reached start_send or returned.
SentTo(i) ==
    IF pc # "idle" /\ (idx < i \/ (idx = i /\ pc \in {"notify", "ready", "start_send"}))
    THEN Front(bcast)
    ELSE bcast

Unfiltered == {i \in Subs : config[i].filter = "none"}

Filtered == {i \in Subs : config[i].filter # "none"}

\* C1: a subscriber without filter observes, at every moment, a prefix of the
\* broadcast sequence in broadcast-call order; while its channel is open the
\* events observed followed by the events queued are exactly the events sent
\* to it so far, so a drained subscriber has observed the broadcast sequence
\* exactly: nothing reordered, duplicated or dropped, Bounded or Unbounded.
C1_UnfilteredFifo ==
    \A i \in Unfiltered :
        /\ IsPrefix(observed[i] \o queue[i], bcast)
        /\ is_open[i] => observed[i] \o queue[i] = SentTo(i)
        /\ (is_open[i] /\ pc = "idle" /\ queue[i] = << >>) => observed[i] = bcast

C1_Witness ==
    \E i \in Unfiltered :
        /\ config[i].channel.kind = "Bounded"
        /\ is_open[i] /\ pc = "idle" /\ queue[i] = << >>
        /\ Len(bcast) >= 3
        /\ observed[i] = bcast
        /\ bcast[1] # bcast[2]

\* C2: the queue of a subscriber with filter f holds only events f accepts,
\* and the events it observes followed by the events queued are the
\* subsequence of the broadcast events f accepts, in broadcast order; a rejected
\* event is never enqueued.
C2_FilteredSubsequence ==
    \A i \in Filtered :
        /\ \A k \in 1..Len(queue[i]) : Wanted(i, queue[i][k])
        /\ IsPrefix(observed[i] \o queue[i], WantedOf(i, bcast))
        /\ is_open[i] => observed[i] \o queue[i] = WantedOf(i, SentTo(i))

C2_Witness ==
    \E i \in Filtered :
        /\ is_open[i] /\ pc = "idle"
        /\ Len(observed[i]) >= 1 /\ Len(queue[i]) >= 1
        /\ Len(bcast) > Len(observed[i]) + Len(queue[i])
        /\ ~Wanted(i, bcast[1])

\* The events poll_next yielded since Events::close was first called.
SinceClose(i) == SubSeq(observed[i], closeSnap[i].at + 1, Len(observed[i]))

\* C3: after Events::close with k events buffered, the polls that follow yield
\* exactly those k events in their queued order (nothing is lost, nothing is
\* added), each poll yields the head of what remains, and the poll after the
\* last of them yields None.
C3_CloseKeepsBuffered ==
    \A i \in Subs :
        (closed[i] /\ rx[i] = "held") =>
            /\ SinceClose(i) \o queue[i] = closeSnap[i].evs
            /\ queue[i] # << >> => PollResult(i) = Some(Head(queue[i]))
            /\ queue[i] = << >> => PollResult(i) = None

C3_Witness ==
    \E i \in Subs :
        /\ closed[i] /\ rx[i] = "held" /\ ended[i]
        /\ Len(closeSnap[i].evs) >= 2
        /\ SinceClose(i) = closeSnap[i].evs

\* notify of Sender i returns in this step.
Returns(i) == pc # "idle" /\ idx = i /\ tx[i] /\ (pc' = "idle" \/ idx' # i)

\* The producer is inside the send of notify of Sender i.
InSend(i) == idx = i /\ pc \in {"ready", "start_send", "flush"}

\* The step of the send the producer is at can be taken: it is not suspended.
SendCanStep ==
    /\ pc = "ready" => ENABLED PollReady
    /\ pc = "start_send" => ENABLED StartSend
    /\ pc = "flush" => ENABLED PollFlush

\* C4: when the Receiver of a subscription has been dropped, the notify that
\* starts next returns false in its first step, whatever the event: it does not
\* fail, it does not enter the send and it cannot suspend.
C4_DroppedReceiverNotLive ==
    /\ [](\A i \in Subs :
            (pc = "notify" /\ idx = i /\ tx[i] /\ rx[i] = "dropped") => ENABLED Notify)
    /\ [][\A i \in Subs :
            (Notify /\ idx = i /\ rx[i] = "dropped") =>
                (Returns(i) /\ ret'[i] = "false" /\ queue'[i] = queue[i])]_vars

C4_Witness ==
    \E i \in Subs :
        /\ rx[i] = "dropped" /\ tx[i] /\ ret[i] = "false"
        /\ Wanted(i, evt)
        /\ pc = "idle" /\ bcast # << >>

BoundedOne == {i \in Unfiltered : config[i].channel = Bounded(1)}

\* C5: for Bounded(1) without filter, as long as the subscriber holds its open
\* stream and has not drained an event: the send of the first event completes,
\* the send of the second stays suspended; while the channel is open, a send
\* with at most one event left in the queue can complete, and a send that
\* completes returns true.
C5_BoundedOneBackpressure ==
    /\ [](\A i \in BoundedOne :
            (rx[i] = "held" /\ is_open[i] /\ pc = "flush" /\ idx = i) =>
                /\ observed[i] = << >> => Len(queue[i]) <= 2
                /\ (observed[i] = << >> /\ Len(queue[i]) = 2) => ~ENABLED PollFlush
                /\ Len(queue[i]) <= 1 => ENABLED PollFlush)
    /\ [][\A i \in BoundedOne :
            (PollFlush /\ idx = i) => (Returns(i) /\ ret'[i] = "true")]_vars

C5_Witness ==
    \E i \in BoundedOne :
        /\ rx[i] = "held" /\ is_open[i] /\ pc = "flush" /\ idx = i
        /\ observed[i] # << >> /\ Len(queue[i]) = 1
        /\ maybe_parked[i] /\ ~parked[i]
        /\ Len(bcast) = 2

UnboundedSubs == {i \in Subs : config[i].channel = Unbounded}

\* C6: for an Unbounded subscription no step of a send is ever suspended,
\* however many events are queued; a notify that returns while the channel is
\* open returns true; and while the channel is open and nothing was polled,
\* the queue holds every event sent to the subscriber, in broadcast order.
C6_UnboundedNeverSuspends ==
    /\ [](\A i \in UnboundedSubs :
            /\ InSend(i) => SendCanStep
            /\ (is_open[i] /\ observed[i] = << >>) => queue[i] = WantedOf(i, SentTo(i)))
    /\ [][\A i \in UnboundedSubs :
            (Returns(i) /\ is_open[i]) => ret'[i] = "true"]_vars

C6_Witness ==
    \E i \in UnboundedSubs \cap Unfiltered :
        /\ is_open[i] /\ rx[i] = "held" /\ observed[i] = << >>
        /\ pc = "idle" /\ ret[i] = "true"
        /\ Len(queue[i]) >= 4
        /\ queue[i] = bcast

\* The subscriber of the scenario holds its stream, open, and has drained nothing.
NotYetDrained(i) ==
    /\ tx[i] /\ rx[i] = "held" /\ is_open[i] /\ ~closed[i]
    /\ observed[i] = << >>

\* C7 as stated: with Bounded(2) and the even filter, all six broadcast calls
\* of 1,2,3,4,5,6 complete while the subscriber has not polled: no send of
\* the scenario is suspended before the subscriber drains.
C7_AllSixCompleteUnpolled ==
    \A i \in Subs : (NotYetDrained(i) /\ InSend(i)) => SendCanStep

\* C7 amended: while the subscriber has drained nothing, the only send that
\* is suspended is that of 6, with 2,4,6 in the queue; the broadcasts of
\* 1..5 are never suspended; and the subscriber observes a prefix of 2,4,6,
\* exactly 2,4,6 once the six broadcasts are over and the queue is drained.
C7_SixthSuspendsThenTwoFourSix ==
    \A i \in Subs :
        /\ (NotYetDrained(i) /\ InSend(i) /\ ~SendCanStep) =>
               (evt = 6 /\ pc = "flush" /\ queue[i] = <<2, 4, 6>>)
        /\ IsPrefix(observed[i] \o queue[i], <<2, 4, 6>>)
        /\ (is_open[i] /\ pc = "idle" /\ Len(bcast) = Len(Script)) =>
               observed[i] \o queue[i] = <<2, 4, 6>>

C7_Witness ==
    \E i \in Subs :
        /\ is_open[i] /\ pc = "idle" /\ bcast = Script
        /\ ret[i] = "true"
        /\ observed[i] = <<2, 4, 6>> /\ queue[i] = << >>

\* The producer is in the flush of its send to Sender i, whose subscriber has
\* closed its stream or dropped it.
FlushOfGone(i) == pc = "flush" /\ idx = i /\ (closed[i] \/ rx[i] = "dropped")

\* C8: a send in flight to a subscriber that has closed or dropped its stream
\* is never suspended, and under a fair schedule of the producer it resolves:
\* the producer leaves that send.
C8_GoneSubscriberReleasesProducer ==
    /\ [](\A i \in Subs : FlushOfGone(i) => ENABLED PollFlush)
    /\ \A i \in Subs : FlushOfGone(i) ~> ~(pc = "flush" /\ idx = i)

C8_Witness ==
    \E i \in Subs :
        /\ FlushOfGone(i)
        /\ config[i].channel.kind = "Bounded"
        /\ maybe_parked[i]
        /\ observed[i] = << >>
        /\ closed[i] /\ Len(queue[i]) > buffer[i]

\* The send of the current broadcast to the Bounded Sender i is suspended: its
\* filter accepted the event, the channel is open and the sender task parked.
Suspended(i) ==
    /\ pc # "idle"
    /\ config[i].channel.kind = "Bounded"
    /\ evaluated[i] /\ is_open[i] /\ parked[i]

\* C9: while the send to a Bounded Sender at position i is suspended, the
\* pass is still at i, and no Sender after i has been offered the event of
\* this broadcast: its filter has not been evaluated for it and its queue
\* and its observations hold events of the earlier broadcasts only.
C9_LaterSendersWait ==
    \A i \in Subs, j \in Subs :
        (i < j /\ Suspended(i)) =>
            /\ pc = "flush" /\ idx = i
            /\ ~evaluated[j]
            /\ IsPrefix(observed[j] \o queue[j], WantedOf(j, Front(bcast)))

C9_Witness ==
    \E i \in Subs, j \in Subs :
        /\ i < j /\ Suspended(i)
        /\ tx[j] /\ rx[j] = "held" /\ is_open[j] /\ Wanted(j, evt)
        /\ observed[j] \o queue[j] = WantedOf(j, Front(bcast))
        /\ Len(bcast) = 2

\* C10: poll_next of a held stream yields the head of the queue whenever the
\* queue is not empty; once it has yielded None it yields None in every later
\* state, the queue stays empty and nothing more is observed, whatever is
\* broadcast afterwards.
C10_NoneIsFinal ==
    /\ [](\A i \in Subs :
            rx[i] = "held" =>
                /\ queue[i] # << >> => PollResult(i) = Some(Head(queue[i]))
                /\ ended[i] => (PollResult(i) = None /\ queue[i] = << >>))
    /\ [][\A i \in Subs :
            ended[i] => (ended'[i] /\ observed'[i] = observed[i])]_vars

C10_Witness ==
    \E i \in Unfiltered :
        /\ ended[i] /\ rx[i] = "held" /\ tx[i]
        /\ Len(observed[i]) >= 2
        /\ Len(bcast) > Len(observed[i])
        /\ pc = "idle" /\ ret[i] = "false"

\* C11: Events::close is idempotent and never waits. A close of a stream
\* that was closed before changes nothing: the same events stay queued and
\* the channel stays closed. A held stream can always be closed, and after a
\* close a poll_next is never left pending: it yields the head of the queue
\* while events remain and None once the queue is empty; a stream that ended
\* after a close has yielded exactly the events that were queued at the close.
C11_CloseIdempotent ==
    /\ [][\A i \in Subs :
            (closed[i] /\ Close(i)) =>
                UNCHANGED << queue, is_open, parked, rx_inner, observed, ended >>]_vars
    /\ [](\A i \in Subs :
            /\ rx[i] = "held" => ENABLED Close(i)
            /\ (closed[i] /\ rx[i] = "held") =>
                /\ ~is_open[i]
                /\ PollResult(i) # Pending
                /\ queue[i] # << >> => PollResult(i) = Some(Head(queue[i]))
                /\ queue[i] = << >> => PollResult(i) = None
                /\ SinceClose(i) \o queue[i] = closeSnap[i].evs
                /\ ended[i] => SinceClose(i) = closeSnap[i].evs)

\* A stream closed while its poll_next was pending (nothing queued), with
\* its Sender still in the registry, has ended; it had observed events before.
C11_Witness ==
    \E i \in Subs :
        /\ closed[i] /\ rx[i] = "held" /\ tx[i] /\ ended[i]
        /\ closeSnap[i].evs = << >>
        /\ closeSnap[i].at = Len(observed[i])
        /\ Len(observed[i]) >= 1

\* C12: once Events::close has been called, the Sender of that stream
\* reports is_closed, every notify that starts afterwards returns false
\* at once, and no event is appended to the queue any more: in every later
\* step the observed events followed by the queued ones stay the same
\* sequence while the stream is held.
C12_NoEventAfterClose ==
    /\ [](\A i \in Subs : closed[i] => IsClosed(i))
    /\ [][\A i \in Subs :
            closed[i] =>
                /\ (Notify /\ idx = i) => (Returns(i) /\ ret'[i] = "false")
                /\ rx'[i] = "held" =>
                       observed'[i] \o queue'[i] = observed[i] \o queue[i]
                /\ Len(queue'[i]) <= Len(queue[i])]_vars

\* A closed stream without filter that is still held and registered: at
\* least two broadcasts were not appended, the later of them started after
\* the close, and its notify returned false.
C12_Witness ==
    \E i \in Unfiltered :
        /\ closed[i] /\ rx[i] = "held" /\ tx[i]
        /\ pc = "idle" /\ ret[i] = "false"
        /\ Len(observed[i] \o queue[i]) >= 1
        /\ queue[i] # << >>
        /\ Len(bcast) >= Len(observed[i] \o queue[i]) + 2

\* The subscriptions that are live: Sender in the registry, channel open.
Live == {i \in Subs : tx[i] /\ is_open[i]}

\* C13: a failing subscriber does not disturb the others. When a broadcast
\* pass has completed, every live Sender has returned true and has had every
\* event its filter accepts appended (observed or still queued, in broadcast
\* order), whether or not another Sender of the registry is dead or failed
\* in its send; the failure shows only in that Sender's own false verdict.
C13_FailureIsIsolated ==
    \A j \in Subs :
        (pc = "idle" /\ bcast # << >> /\ j \in Live) =>
            /\ ret[j] = "true"
            /\ rx[j] = "held"
            /\ observed[j] \o queue[j] = WantedOf(j, bcast)

\* A pass has completed in which the Sender visited first was dead and
\* returned false, and the live Sender after it accepted the event of that
\* pass and has it at the tail of its queue.
C13_Witness ==
    \E i \in Subs, j \in Subs :
        /\ i < j /\ pc = "idle" /\ Len(bcast) = 2
        /\ tx[i] /\ ~is_open[i] /\ ret[i] = "false"
        /\ Len(observed[i] \o queue[i]) < Len(WantedOf(i, bcast))
        /\ j \in Live /\ Wanted(j, evt)
        /\ queue[j] # << >> /\ queue[j][Len(queue[j])] = evt

\* The Receiver of subscription i is dead: its Events was closed or dropped.
ReceiverDead(i) == rx[i] = "dropped" \/ closed[i]

\* C14, as stated: a notify of a Sender whose Receiver is already dead and
\* whose filter does not accept the event returns true (the Sender is
\* reported alive and stays in the registry).
C14_DeadUninterestedReportedAlive ==
    [][\A i \in Subs :
        (Notify /\ idx = i /\ ReceiverDead(i) /\ ~Wanted(i, evt)) =>
            ret'[i] = "true"]_vars

\* C14, amended: a notify of a Sender whose Receiver is already dead returns
\* false whatever its filter would answer, and the filter is not consulted;
\* a filter that does not accept the event makes notify return true, with
\* nothing enqueued, only when the channel is not closed as notify starts.
C14_DeadReportedDeadWhateverFilter ==
    [][\A i \in Subs :
        (Notify /\ idx = i) =>
            /\ ReceiverDead(i) =>
                   (ret'[i] = "false" /\ evaluated'[i] = evaluated[i])
            /\ ~Wanted(i, evt) =>
                   /\ Returns(i) /\ queue'[i] = queue[i]
                   /\ ret'[i] = "true" <=> is_open[i]]_vars

\* A Sender with a filter whose Events was dropped has returned false for an
\* event its filter does not accept; no broadcast so far was of an accepted
\* event.
C14_Witness ==
    \E i \in Filtered :
        /\ tx[i] /\ rx[i] = "dropped" /\ pc = "idle"
        /\ bcast # << >> /\ WantedOf(i, bcast) = << >>
        /\ ~evaluated[i]
        /\ ret[i] = "false"

\* C15: Events::new builds the Sender and the Receiver of a subscription
\* together, both of the discipline the config names and the Sender with the
\* config's filter: Bounded(n) gives a Bounded pair on a transport created
\* with n, Unbounded an Unbounded pair, and the default config an Unbounded
\* pair. Discipline and filter never change afterwards.
C15_DisciplineFixed ==
    /\ [](\A i \in Subs :
            /\ sender[i].kind = config[i].channel.kind
            /\ receiver[i].kind = config[i].channel.kind
            /\ sender[i].filter = config[i].filter
            /\ config[i].channel.kind = "Bounded" =>
                   buffer[i] = config[i].channel.queue_size
            /\ config[i] = DefaultConfig =>
                   (sender[i].kind = "Unbounded" /\ receiver[i].kind = "Unbounded"))
    /\ [](New(DefaultConfig).rx.kind = "Unbounded")
    /\ [][/\ config' = config /\ sender' = sender
          /\ receiver' = receiver /\ buffer' = buffer]_vars

\* A Bounded(2) subscription with a filter that has gone through its whole
\* life (events observed, closed, ended) still has its Bounded pair.
C15_Witness ==
    \E i \in Subs :
        /\ config[i] = [channel |-> Bounded(2), filter |-> "even"]
        /\ sender[i].kind = "Bounded" /\ receiver[i].kind = "Bounded"
        /\ Len(observed[i]) >= 2 /\ closed[i] /\ ended[i]

\* The subscriptions with a bounded channel.
BoundedSubs == {i \in Subs : config[i].channel.kind = "Bounded"}

\* C16, as stated: a Bounded(n) subscription never has more than n events
\* enqueued and not yet polled (a send that finds n events queued does not
\* enqueue its event before a poll has freed space).
C16_AtMostNQueued ==
    \A i \in BoundedSubs : Len(queue[i]) <= config[i].channel.queue_size

\* C17: a notify that finds is_closed true returns false in that very step,
\* whatever the filter would answer: the filter is not evaluated, nothing is
\* sent (the queue and the parking state of the transport are unchanged),
\* and the step is always possible, so the call never suspends.
C17_ClosedReturnsFalseAtOnce ==
    /\ [][\A i \in Subs :
            (Notify /\ idx = i /\ IsClosed(i)) =>
                /\ Returns(i) /\ ret'[i] = "false"
                /\ UNCHANGED << evaluated, queue, parked, maybe_parked, observed >>]_vars
    /\ []((pc = "notify" /\ tx[idx] /\ IsClosed(idx)) => ENABLED Notify)

\* A Sender with a filter whose stream was closed with events still queued
\* has returned false for an event its filter accepts, without the filter
\* having been evaluated in that pass.
C17_Witness ==
    \E i \in Filtered :
        /\ tx[i] /\ closed[i] /\ rx[i] = "held" /\ queue[i] # << >>
        /\ pc = "idle" /\ bcast # << >> /\ Wanted(i, evt)
        /\ ~evaluated[i] /\ ret[i] = "false"

\* C18: the verdict of a notify that did not find its channel closed when it
\* started. It returns false exactly when the filter accepted the event (or
\* there is no filter) and the send ended with an error, which is when the
\* send returns from poll_ready or start_send; it returns true without
\* enqueuing when the filter rejects the event, and true when the send ran
\* to the end of its flush. The queue grows only in start_send.
C18_VerdictOfOpenNotify ==
    [][\A i \in Subs :
        (Returns(i) /\ (pc = "notify" => is_open[i])) =>
            /\ ret'[i] \in {"true", "false"}
            /\ ret'[i] = "false" <=>
                   (Wanted(i, evt) /\ pc \in {"ready", "start_send"})
            /\ pc = "notify" =>
                   (~Wanted(i, evt) /\ evaluated'[i] /\ queue'[i] = queue[i])
            /\ pc \in {"ready", "start_send"} =>
                   (~is_open[i] /\ queue'[i] = queue[i])
            /\ pc = "flush" => (Wanted(i, evt) /\ queue'[i] = queue[i])]_vars

\* A Sender with a filter has returned false for an accepted event although
\* its channel was open when notify started (the filter was evaluated): the
\* channel was closed before the send could enqueue.
C18_Witness ==
    \E i \in Filtered :
        /\ tx[i] /\ pc = "idle" /\ bcast # << >>
        /\ evaluated[i] /\ Wanted(i, evt)
        /\ ret[i] = "false"
        /\ Len(observed[i] \o queue[i]) < Len(WantedOf(i, bcast))

\* C19: closedness is permanent. A channel that is_closed reports closed is
\* reported closed in every later state; a Sender whose notify has returned
\* false is closed, every notify of it that starts later returns false, and
\* its verdict stays false.
C19_ClosedForGood ==
    /\ [](\A i \in Subs : ret[i] = "false" => IsClosed(i))
    /\ [][\A i \in Subs :
            /\ IsClosed(i) => IsClosed(i)'
            /\ ret[i] = "false" => ret'[i] = "false"
            /\ (Notify /\ idx = i /\ (IsClosed(i) \/ ret[i] = "false")) =>
                   (Returns(i) /\ ret'[i] = "false")]_vars

\* A closed stream without filter, still held and registered: three
\* broadcasts or more were refused one after the other.
C19_Witness ==
    \E i \in Unfiltered :
        /\ tx[i] /\ closed[i] /\ rx[i] = "held" /\ IsClosed(i)
        /\ pc = "idle" /\ ret[i] = "false"
        /\ Len(bcast) >= Len(observed[i] \o queue[i]) + 3

\* C20: a stream whose Sender the registry has dropped terminates. While it
\* is held, its poll_next is never pending: it yields the head of the queue
\* while events remain and None once the queue is empty; the events enqueued
\* before the drop are neither lost nor reordered; and a subscriber that
\* keeps polling reaches the end of the stream (or drops it).
C20_SenderGoneEndsStream ==
    /\ [](\A i \in Subs :
            (~tx[i] /\ rx[i] = "held") =>
                /\ PollResult(i) # Pending
                /\ queue[i] # << >> => PollResult(i) = Some(Head(queue[i]))
                /\ queue[i] = << >> => PollResult(i) = None)
    /\ [][\A i \in Subs :
            (~tx[i] /\ rx'[i] = "held") =>
                observed'[i] \o queue'[i] = observed[i] \o queue[i]]_vars
    /\ \A i \in Subs :
            (~tx[i] /\ rx[i] = "held") ~> (ended[i] \/ rx[i] = "dropped")

\* A stream that was never closed by its subscriber has ended after its
\* Sender was dropped, having yielded every accepted event that was broadcast.
C20_Witness ==
    \E i \in Subs :
        /\ ~tx[i] /\ rx[i] = "held" /\ ~closed[i] /\ ended[i]
        /\ Len(observed[i]) >= 2
        /\ observed[i] = WantedOf(i, bcast)

====
